---- MODULE Spec2Model ----
(***************************************************************************)
(* A model of the forge add-on of portablemc                               *)
(* (src/src/forge/portablemc_forge/__init__.py): the new_version resolver  *)
(* and the ForgeVersion installer hooks.                                   *)
(*                                                                         *)
(* Strings are sequences of one-character strings, so that the slices and  *)
(* the suffix tests of the code are computed on characters.  An optional   *)
(* value is None (the empty tuple) or Some(x) (a one-element tuple).       *)
(***************************************************************************)
EXTENDS Naturals, Integers, Sequences, FiniteSets, TLC

VARIABLES
    pc,                   \* position of the running call
    version_id,           \* new_version: the requested identifier
    game_version,         \* new_version: local game_version
    game_version_alias,   \* new_version: local game_version_alias
    promo_versions,       \* new_version: local promo_versions (optional)
    suffix_i,             \* new_version: position of the suffix loop
    forge_version,        \* new_version: local forge_version (optional)
    promo_requests,       \* number of calls of request_promo_versions
    promo_lookups,        \* the keys given to promo_versions.get, in order
    raised,               \* the error that left the call (optional)
    created,              \* the forge version of the ForgeVersion made (optional)
    call_id,              \* the version_id given to _validate/_fetch_version_meta
    self,                 \* the ForgeVersion object: its instance attributes
    disk,                 \* the libraries directory: path -> size of the file
    install_jar,          \* _fetch_version_meta: local install_jar (optional)
    jars_opened,          \* number of ZipFile objects made so far
    jars_closed,          \* number of ZipFile objects closed so far
    requests,             \* the calls of request_install_jar: version and answer
    suffixes,             \* _fetch_version_meta: local suffixes
    jar_i,                \* _fetch_version_meta: position of the suffix loop
    install_profile,      \* _fetch_version_meta: local install_profile (optional)
    version_meta,         \* _fetch_version_meta: local version_meta (optional)
    lib_i,                \* _fetch_version_meta: position of the libraries loop
    extracted,            \* the calls of zip_extract_file that wrote a file
    returned,             \* the document _fetch_version_meta returned (optional)
    meta_file,            \* the version's metadata file on disk (optional)
    valid,                \* what _validate_version_meta returned (optional)
    generic_libraries,    \* the libraries Version.prepare_libraries saw (optional)
    process_runs,         \* the calls of subprocess.run, in order
    exit_codes,           \* the returncode of each call of subprocess.run, in order
    fetch_error,          \* the error that left _fetch_version_meta (optional)
    hook_calls            \* the calls of prepare_libraries and prepare_post, in order

resolveVars == <<version_id, game_version, game_version_alias, promo_versions,
                 suffix_i, forge_version, promo_requests, promo_lookups, created>>

installVars == <<call_id, self, disk, install_jar, jars_opened, jars_closed,
                 requests, suffixes, jar_i, install_profile, version_meta, lib_i,
                 extracted, returned, meta_file, valid, generic_libraries,
                 process_runs, exit_codes, fetch_error, hook_calls>>

vars == <<pc, raised, resolveVars, installVars>>

-----------------------------------------------------------------------------
(* Optional values and strings *)

None == <<>>
Some(x) == <<x>>

\* All sequences over S of length at most n.
SeqsUpTo(S, n) == UNION {[1..k -> S] : k \in 0..n}

RECURSIVE Flatten(_)
Flatten(ps) == IF ps = <<>> THEN <<>> ELSE Head(ps) \o Flatten(Tail(ps))

\* str.startswith / str.endswith / `c in str` / str[n:] / str[:-n]
StartsWith(s, p) == Len(s) >= Len(p) /\ SubSeq(s, 1, Len(p)) = p
EndsWith(s, p) == Len(s) >= Len(p) /\ SubSeq(s, Len(s) - Len(p) + 1, Len(s)) = p
HasChar(s, c) == \E i \in 1..Len(s) : s[i] = c
DropFirst(s, n) == SubSeq(s, n + 1, Len(s))
DropLast(s, n) == SubSeq(s, 1, Len(s) - n)

ForgeColon == <<"f", "o", "r", "g", "e", ":">>
Release == <<"r", "e", "l", "e", "a", "s", "e">>
Dash == <<"-">>
RecommendedWord == <<"r", "e", "c", "o", "m", "m", "e", "n", "d", "e", "d">>
LatestWord == <<"l", "a", "t", "e", "s", "t">>
DashRecommended == Dash \o RecommendedWord
DashLatest == Dash \o LatestWord

-----------------------------------------------------------------------------
(* Inputs of new_version *)

\* The longest requested identifier, in pieces.
MaxLen == 3

\* A game version and two build numbers of the promotion feed.
Game == <<"1", ".", "9">>
Build1 == <<"1", "2">>
Build2 == <<"1", "3">>
Builds == {Build1, Build2}

Pieces == {Release, Game, Dash, RecommendedWord, LatestWord, Build1}
Remainders == {Flatten(ps) : ps \in SeqsUpTo(Pieces, MaxLen)}
VersionIds == Remainders \cup {ForgeColon \o r : r \in Remainders}

\* The keys a promotion feed may hold, and the feeds.
PromoKeys == {Game, Game \o DashRecommended, Game \o DashLatest,
              Game \o DashRecommended \o DashLatest}
PromoMaps == UNION {[ks -> Builds] : ks \in SUBSET PromoKeys}

\* VersionManifest.filter_latest: "release" is an alias of the latest release.
FilterLatest(v) == IF v = Release THEN <<Game, TRUE>> ELSE <<v, FALSE>>

\* dict.get
DictGet(d, k) == IF k \in DOMAIN d THEN Some(d[k]) ELSE None

-----------------------------------------------------------------------------
(* new_version *)

\* A changed order of the suffixes of line 60.
PromoSuffixesLatestFirst == << <<>>, DashLatest, DashRecommended >>

\* Line 60: the suffixes, in the order they are tried.
PromoSuffixes == << <<>>, DashRecommended, DashLatest >>

\* ctx.ns.forge_prefix
ForgePrefix == <<"f", "o", "r", "g", "e">>

MINECRAFT_VERSION_NOT_SUPPORTED == "minecraft_version_not_supported"

ForgeError(code, version) == [type |-> "ForgeError", code |-> code, version |-> version]

\* Line 58 without its last test.
LookupRequiredNoBareTest(gv, alias) ==
    \/ alias
    \/ EndsWith(gv, DashRecommended)
    \/ EndsWith(gv, DashLatest)

\* The condition of line 58.
LookupRequired(gv, alias) ==
    \/ alias
    \/ EndsWith(gv, DashRecommended)
    \/ EndsWith(gv, DashLatest)
    \/ ~HasChar(gv, "-")

\* Lines 63-66: the game version without its promotion suffix.
StripPromoSuffix(gv) ==
    IF EndsWith(gv, DashRecommended) THEN DropLast(gv, 12)
    ELSE IF EndsWith(gv, DashLatest) THEN DropLast(gv, 7)
    ELSE gv

\* Lines 70-73 without the test of the alias.
NotSupportedAnyVersion(fv, alias) == fv = None

\* Lines 70-73: nothing was found for a game version that came from an alias.
NotSupported(fv, alias) == fv = None /\ alias

\* No ForgeVersion exists yet.
NoInstall ==
    /\ call_id = <<>>
    /\ self = <<>>
    /\ disk = <<>>
    /\ install_jar = None
    /\ jars_opened = 0
    /\ jars_closed = 0
    /\ requests = <<>>
    /\ suffixes = <<>>
    /\ jar_i = 0
    /\ install_profile = None
    /\ version_meta = None
    /\ lib_i = 0
    /\ extracted = <<>>
    /\ returned = None
    /\ meta_file = None
    /\ valid = None
    /\ generic_libraries = None
    /\ process_runs = <<>>
    /\ exit_codes = <<>>
    /\ fetch_error = None
    /\ hook_calls = <<>>

\* The locals of new_version before the call.
ResolveLocals ==
    /\ game_version = <<>>
    /\ game_version_alias = FALSE
    /\ promo_versions = None
    /\ suffix_i = 0
    /\ forge_version = None
    /\ promo_requests = 0
    /\ promo_lookups = <<>>
    /\ created = None

InitResolve ==
    /\ pc = "new_version"
    /\ version_id \in VersionIds
    /\ ResolveLocals
    /\ raised = None
    /\ NoInstall

\* Line 80: an identifier without the prefix goes to the wrapped new_version.
NewVersionOld ==
    /\ pc = "new_version"
    /\ ~StartsWith(version_id, ForgeColon)
    /\ pc' = "old"
    /\ UNCHANGED <<raised, resolveVars, installVars>>

\* Lines 44-53.
NewVersionEnter ==
    /\ pc = "new_version"
    /\ StartsWith(version_id, ForgeColon)
    /\ LET rest == DropFirst(version_id, 6)
           req == IF Len(rest) = 0 THEN Release ELSE rest
           fl == FilterLatest(req)
       IN /\ game_version' = fl[1]
          /\ game_version_alias' = fl[2]
    /\ forge_version' = None
    /\ pc' = "promo_test"
    /\ UNCHANGED <<version_id, promo_versions, suffix_i, promo_requests,
                   promo_lookups, created, raised, installVars>>

\* Lines 58-59: the promotion feed is requested.
RequestPromoVersions ==
    /\ pc = "promo_test"
    /\ LookupRequired(game_version, game_version_alias)
    /\ \E promos \in PromoMaps : promo_versions' = Some(promos)
    /\ promo_requests' = promo_requests + 1
    /\ suffix_i' = 1
    /\ pc' = "promo_loop"
    /\ UNCHANGED <<version_id, game_version, game_version_alias, forge_version,
                   promo_lookups, created, raised, installVars>>

\* Line 58, condition false.
SkipPromoVersions ==
    /\ pc = "promo_test"
    /\ ~LookupRequired(game_version, game_version_alias)
    /\ pc' = "resolved"
    /\ UNCHANGED <<raised, resolveVars, installVars>>

\* Lines 60-68: one turn of the suffix loop.
PromoLookup ==
    /\ pc = "promo_loop"
    /\ suffix_i \in 1..Len(PromoSuffixes)
    /\ LET key == game_version \o PromoSuffixes[suffix_i]
           tmp_forge_version == DictGet(promo_versions[1], key)
       IN /\ promo_lookups' = Append(promo_lookups, key)
          /\ IF tmp_forge_version # None
             THEN /\ game_version' = StripPromoSuffix(game_version)
                  /\ forge_version' =
                        Some(StripPromoSuffix(game_version) \o Dash \o tmp_forge_version[1])
                  /\ pc' = "resolved"
                  /\ UNCHANGED suffix_i
             ELSE /\ suffix_i' = suffix_i + 1
                  /\ pc' = IF suffix_i = Len(PromoSuffixes) THEN "resolved" ELSE "promo_loop"
                  /\ UNCHANGED <<game_version, forge_version>>
    /\ UNCHANGED <<version_id, game_version_alias, promo_versions, promo_requests,
                   created, raised, installVars>>

\* Lines 70-74.
RaiseNotSupported ==
    /\ pc = "resolved"
    /\ NotSupported(forge_version, game_version_alias)
    /\ raised' = Some(ForgeError(MINECRAFT_VERSION_NOT_SUPPORTED, game_version))
    /\ pc' = "raised"
    /\ UNCHANGED <<resolveVars, installVars>>

\* Lines 70, 76-78.
NewForgeVersion ==
    /\ pc = "resolved"
    /\ ~NotSupported(forge_version, game_version_alias)
    /\ forge_version' = IF forge_version = None THEN Some(game_version) ELSE forge_version
    /\ created' = forge_version'
    /\ pc' = "returned"
    /\ UNCHANGED <<version_id, game_version, game_version_alias, promo_versions,
                   suffix_i, promo_requests, promo_lookups, raised, installVars>>

NextResolve ==
    \/ NewVersionOld
    \/ NewVersionEnter
    \/ RequestPromoVersions
    \/ SkipPromoVersions
    \/ PromoLookup
    \/ RaiseNotSupported
    \/ NewForgeVersion

SpecResolve == InitResolve /\ [][NextResolve]_vars

-----------------------------------------------------------------------------
(* Claims about new_version *)

\* What the caller asked for: the identifier without "forge:", the game
\* version the manifest gives for it, and whether it was an alias.
Requested == DropFirst(version_id, 6)
RequestedGame == FilterLatest(IF Len(Requested) = 0 THEN Release ELSE Requested)[1]
RequestedIsAlias == FilterLatest(IF Len(Requested) = 0 THEN Release ELSE Requested)[2]
RequestedKeys == <<RequestedGame, RequestedGame \o DashRecommended,
                   RequestedGame \o DashLatest>>
RequestedGameBare ==
    IF EndsWith(RequestedGame, DashRecommended)
    THEN DropLast(RequestedGame, Len(DashRecommended))
    ELSE IF EndsWith(RequestedGame, DashLatest)
    THEN DropLast(RequestedGame, Len(DashLatest))
    ELSE RequestedGame
ResolveEnded == pc \in {"raised", "returned"}
PresentKeys == {i \in 1..3 : RequestedKeys[i] \in DOMAIN promo_versions[1]}
FirstPresent == CHOOSE i \in PresentKeys : \A j \in PresentKeys : i <= j

\* C1: once the promotion map is fetched, the keys are looked up in the order
\* game version, game version + "-recommended", game version + "-latest", the
\* lookups stop at the first key present, and the build identifier is the
\* game version without its -recommended/-latest suffix, "-", the build found
\* under that first key.
C1_FirstPromoKeyWins ==
    promo_versions # None =>
        /\ Len(promo_lookups) <= 3
        /\ promo_lookups = SubSeq(RequestedKeys, 1, Len(promo_lookups))
        /\ (ResolveEnded /\ PresentKeys # {}) =>
              /\ Len(promo_lookups) = FirstPresent
              /\ pc = "returned"
              /\ created = Some(RequestedGameBare \o Dash
                                \o promo_versions[1][RequestedKeys[FirstPresent]])
        /\ (ResolveEnded /\ PresentKeys = {}) => Len(promo_lookups) = 3

\* Two keys present with different builds; the exact key decided.
C1_Witness ==
    /\ pc = "returned"
    /\ promo_versions # None
    /\ Requested = Game
    /\ {Game, Game \o DashRecommended, Game \o DashLatest} \subseteq DOMAIN promo_versions[1]
    /\ promo_versions[1][Game] = Build2
    /\ promo_versions[1][Game \o DashRecommended] = Build1
    /\ created = Some(Game \o Dash \o Build2)

NothingFound == promo_versions = None \/ PresentKeys = {}

\* C2: when no promotion entry is found (or none was looked up), a game
\* version that came from an alias ends in MinecraftVersionNotSupported with
\* that game version and no ForgeVersion; any other request ends without an
\* error in a ForgeVersion of the requested remainder, unchanged.
C2_NothingFound ==
    (ResolveEnded /\ NothingFound) =>
        IF RequestedIsAlias
        THEN /\ pc = "raised"
             /\ raised = Some([type |-> "ForgeError",
                               code |-> "minecraft_version_not_supported",
                               version |-> RequestedGame])
             /\ created = None
        ELSE /\ pc = "returned"
             /\ raised = None
             /\ created = Some(Requested)

\* Both cases: an alias without promotion, and a bare game version without.
C2_WitnessAlias ==
    /\ pc = "raised" /\ RequestedIsAlias /\ promo_versions # None /\ PresentKeys = {}
C2_Witness ==
    /\ pc = "returned" /\ ~RequestedIsAlias /\ promo_versions # None
    /\ PresentKeys = {} /\ Requested = Game /\ created = Some(Game)

RequestedNeedsLookup ==
    \/ RequestedIsAlias
    \/ EndsWith(RequestedGame, DashRecommended)
    \/ EndsWith(RequestedGame, DashLatest)
    \/ \A i \in 1..Len(RequestedGame) : RequestedGame[i] # "-"

\* C3: the promotion map is requested exactly once when the request is an
\* alias, ends with -recommended or -latest, or has no "-", and is never
\* requested otherwise; without the request the identifier is returned as it
\* was given.
C3_PromoFetchedIffRequired ==
    /\ promo_requests <= 1
    /\ (pc \in {"promo_loop", "resolved", "raised", "returned"}) =>
          /\ promo_requests = (IF RequestedNeedsLookup THEN 1 ELSE 0)
          /\ (promo_requests = 1) <=> (promo_versions # None)
    /\ (ResolveEnded /\ ~RequestedNeedsLookup) =>
          /\ pc = "returned"
          /\ promo_lookups = <<>>
          /\ created = Some(Requested)

\* An explicit build, returned without a request; and a bare game version,
\* for which the map was requested.
C3_Witness ==
    /\ pc = "returned" /\ Requested = Game \o Dash \o Build1
    /\ promo_requests = 0 /\ created = Some(Game \o Dash \o Build1)
C3_WitnessBare ==
    /\ pc = "returned" /\ Requested = Game /\ promo_requests = 1

-----------------------------------------------------------------------------
(* ForgeVersion: inputs *)

\* The longest "libraries" array of an install profile, the longest
\* "libraries" array of a version document, the longest "processors" array.
MaxLibs == 2
MaxVLibs == 2
MaxProcs == 2

\* Forge versions: one of a game version with two legacy suffixes ("1.9"),
\* one of a game version without, and a bare game version with one ("1.7.2").
FvLegacy == Game \o Dash \o Build1
FvPlain == <<"1", ".", "2", "0">> \o Dash \o Build1
FvBare == <<"1", ".", "7", ".", "2">>
ForgeVersions == {FvLegacy, FvPlain, FvBare}

\* The id of the parent (vanilla) version.
ParentId == <<"1", ".", "2", "0">>

\* Library names and the url of a remote artifact.
LibA == <<"a">>
LibB == <<"b">>
LibNames == {LibA, LibB}
Url == <<"u">>

\* An entry of install_profile["libraries"].
InstallLibs ==
    {[name |-> n, downloads |-> [artifact |-> [url |-> u, size |-> sz]]] :
        n \in LibNames, u \in {<<>>, Url}, sz \in {None, Some(1)}}

\* Entries of version_meta["libraries"]: one with a remote artifact, one whose
\* artifact has an empty url (the file comes from the archive), one without
\* a "downloads" key.
VLibRemote == [name |-> LibA, downloads |-> [artifact |-> [url |-> Url]]]
VLibNoUrl == [name |-> <<"f">>, downloads |-> [artifact |-> [url |-> <<>>]]]
VLibPlain == [name |-> LibB]
VLibs == {VLibRemote, VLibNoUrl, VLibPlain}

\* Entries of versionInfo["libraries"] of an old installer: a name and any of
\* the three old keys.
LegacyKeys == {"serverreq", "clientreq", "checksums"}
LegacyLibs ==
    {[k \in {"name"} \cup ks |-> IF k = "name" THEN n ELSE <<"x">>] :
        n \in LibNames, ks \in SUBSET LegacyKeys}

\* Processors of an install profile.
ProcA == [jar |-> LibA, classpath |-> <<LibB>>,
          args |-> << <<"[", "b", "]">>, <<"{", "K", "}">> >>]
ProcB == [jar |-> LibB, classpath |-> <<LibA, LibB>>, args |-> << <<"-", "x">> >>]
Procs == {ProcA, ProcB}

\* install_profile["data"]
InstallDataRaw ==
    [k \in {<<"K">>, <<"L">>} |->
        [client |-> <<"c">> \o k, server |-> <<"s">> \o k]]

\* The id written in the archive's own version document.
EmbeddedId == <<"e", "m", "b">>

\* Installer archives.  profile: the content of install_profile.json, if the
\* entry exists; version_json: the content of the entry install_profile["json"]
\* names, if it exists; maven: the names of the libraries stored under maven/;
\* forge_jar: whether the entry install["filePath"] exists.
ModernJars(libSeqs, vlibSeqs, procSeqs, mavens) ==
    {[profile |-> Some([json |-> <<"/", "v">>, libraries |-> ls,
                        processors |-> ps, data |-> InstallDataRaw]),
      version_json |-> Some([id |-> EmbeddedId, libraries |-> vl]),
      maven |-> mv, forge_jar |-> FALSE] :
        ls \in libSeqs, vl \in vlibSeqs, ps \in procSeqs, mv \in mavens}
    \cup
    {[profile |-> Some([json |-> <<"/", "v">>, libraries |-> <<>>,
                        processors |-> <<>>, data |-> InstallDataRaw]),
      version_json |-> None, maven |-> {}, forge_jar |-> FALSE]}

LegacyJars(libSeqs) ==
    {[profile |-> Some([versionInfo |-> [id |-> EmbeddedId, libraries |-> ll],
                        install |-> [filePath |-> <<"j">>, path |-> LibB]]),
      version_json |-> None, maven |-> {}, forge_jar |-> fj] :
        ll \in libSeqs, fj \in BOOLEAN}
    \cup
    {[profile |-> Some([install |-> [filePath |-> <<"j">>, path |-> LibB]]),
      version_json |-> None, maven |-> {}, forge_jar |-> TRUE],
     [profile |-> None, version_json |-> None, maven |-> {}, forge_jar |-> FALSE]}

\* The libraries directory before the install: each library file is absent
\* or present with a size of 1 or 2.
LibPath(name) == <<"libraries">> \o name
Disks == UNION {[{LibPath(n) : n \in ns} -> {1, 2}] : ns \in SUBSET LibNames}

\* The size of every archive entry that is extracted.
EntrySize(entry) == 1

-----------------------------------------------------------------------------
(* ForgeVersion.__init__ *)

\* Lines 101-110 (the attributes of Version that this file reads are dl,
\* version_meta, jvm_exec and id).
NewSelf(fv, jvm) ==
    [id |-> ForgePrefix \o Dash \o fv,
     forge_version |-> fv,
     forge_install_libraries |-> None,
     forge_install_processors |-> None,
     forge_install_data |-> None,
     forge_install_version_libraries |-> None,
     version_meta |-> None,
     dl |-> <<>>,
     jvm_exec |-> jvm]

InstallerLocals ==
    /\ install_jar = None
    /\ jars_opened = 0
    /\ jars_closed = 0
    /\ requests = <<>>
    /\ suffixes = <<>>
    /\ jar_i = 0
    /\ install_profile = None
    /\ version_meta = None
    /\ lib_i = 0
    /\ extracted = <<>>
    /\ returned = None
    /\ valid = None
    /\ generic_libraries = None
    /\ process_runs = <<>>
    /\ exit_codes = <<>>
    /\ fetch_error = None
    /\ hook_calls = <<>>

-----------------------------------------------------------------------------
(* ForgeVersion._fetch_version_meta *)

INSTALLER_NOT_FOUND == "installer_not_found"
\* The code of a missing installer given to a missing install profile.
InstallProfileCodeOfInstaller == "installer_not_found"
INSTALL_PROFILE_NOT_FOUND == "install_profile_not_found"
VERSION_META_NOT_FOUND == "version_meta_not_found"
REQUIRES_JVM == "requires_jvm"

KeyError(key) == [type |-> "KeyError", key |-> key]
AttributeError(name) == [type |-> "AttributeError", name |-> name]
TypeError == [type |-> "TypeError"]

\* str.split("-", 1)[0]
RECURSIVE BeforeDash(_)
BeforeDash(s) ==
    IF s = <<>> \/ Head(s) = "-" THEN <<>> ELSE <<Head(s)>> \o BeforeDash(Tail(s))

\* Lines 131-142: the table of the odd suffixes of old game versions.
LegacySuffixes(gv) ==
    CASE gv = <<"1", ".", "1", "1">> ->
           << <<"-", "1", ".", "1", "1", ".", "x">> >>
      [] gv = <<"1", ".", "1", "0", ".", "2">> ->
           << <<"-", "1", ".", "1", "0", ".", "0">> >>
      [] gv = <<"1", ".", "1", "0">> ->
           << <<"-", "1", ".", "1", "0", ".", "0">> >>
      [] gv = <<"1", ".", "9", ".", "4">> ->
           << <<"-", "1", ".", "9", ".", "4">> >>
      [] gv = <<"1", ".", "9">> ->
           << <<"-", "1", ".", "9", ".", "0">>, <<"-", "1", ".", "9">> >>
      [] gv = <<"1", ".", "8", ".", "9">> ->
           << <<"-", "1", ".", "8", ".", "9">> >>
      [] gv = <<"1", ".", "8", ".", "8">> ->
           << <<"-", "1", ".", "8", ".", "8">> >>
      [] gv = <<"1", ".", "8">> ->
           << <<"-", "1", ".", "8">> >>
      [] gv = <<"1", ".", "7", ".", "1", "0">> ->
           << <<"-", "1", ".", "7", ".", "1", "0">>,
              <<"-", "1", "7", "1", "0", "l", "s">>, <<"-", "n", "e", "w">> >>
      [] gv = <<"1", ".", "7", ".", "2">> ->
           << <<"-", "m", "c", "1", "7", "2">> >>
      [] OTHER -> <<>>

\* The suffix list with the unsuffixed form last.
InstallerSuffixesPlainLast(fv) == LegacySuffixes(BeforeDash(fv)) \o << <<>> >>

\* Lines 126-142: suffixes = [""] + table.get(game_version, []).
InstallerSuffixes(fv) == << <<>> >> \o LegacySuffixes(BeforeDash(fv))

\* A with statement that closes only when its body returns.
WithExitOnReturnOnly(closed, exc) == IF exc THEN closed ELSE closed + 1

\* Line 153: leaving `with install_jar:` closes the archive, whether the body
\* returned or raised.
WithExit(closed, exc) == closed + 1

\* A document whose id is left as the archive wrote it.
SetIdKeepEmbedded(meta, id) == meta

\* Line 234: version_meta["id"] = version_id
SetId(meta, id) == ("id" :> id) @@ meta

\* The old keys but "checksums" are deleted from a library.
StripLegacyKeysButChecksums(version_lib) ==
    [k \in DOMAIN version_lib \ {"serverreq", "clientreq"} |-> version_lib[k]]

\* dict without a key (del d[k])
DictDel(d, k) == [x \in DOMAIN d \ {k} |-> d[x]]

\* The installer is looked for whatever the id is.
FetchVersionMetaAnyId ==
    /\ pc = "fetch"
    /\ call_id # self.id
    /\ suffixes' = InstallerSuffixes(self.forge_version)
    /\ jar_i' = 1
    /\ pc' = "jar_loop"
    /\ UNCHANGED <<raised, resolveVars, call_id, self, disk, install_jar, jars_opened,
                   jars_closed, requests, install_profile, version_meta, lib_i,
                   extracted, returned, meta_file, valid, generic_libraries,
                   process_runs, exit_codes, hook_calls, fetch_error>>

\* Lines 121-122: another id goes to Version._fetch_version_meta.
FetchVersionMetaSuper ==
    /\ pc = "fetch"
    /\ call_id # self.id
    /\ pc' = "super_fetch"
    /\ UNCHANGED <<raised, resolveVars, installVars>>

\* Lines 121-142.
FetchVersionMetaEnter ==
    /\ pc = "fetch"
    /\ call_id = self.id
    /\ suffixes' = InstallerSuffixes(self.forge_version)
    /\ jar_i' = 1
    /\ pc' = "jar_loop"
    /\ UNCHANGED <<raised, resolveVars, call_id, self, disk, install_jar, jars_opened,
                   jars_closed, requests, install_profile, version_meta, lib_i,
                   extracted, returned, meta_file, valid, generic_libraries, process_runs,
                   exit_codes, hook_calls, fetch_error>>

\* Lines 145-148 and 316-320: one turn of the loop, one request.  The answer
\* is a status other than 200 (None) or an archive.
RequestInstallJar(jars) ==
    /\ pc = "jar_loop"
    /\ jar_i \in 1..Len(suffixes)
    /\ \E answer \in {None} \cup {Some(j) : j \in jars} :
          /\ requests' = Append(requests,
                [version |-> self.forge_version \o suffixes[jar_i], ok |-> answer # None])
          /\ install_jar' = answer
          /\ jars_opened' = IF answer # None THEN jars_opened + 1 ELSE jars_opened
          /\ IF answer # None
             THEN pc' = "jar_found" /\ UNCHANGED jar_i
             ELSE /\ jar_i' = jar_i + 1
                  /\ pc' = IF jar_i = Len(suffixes) THEN "jar_found" ELSE "jar_loop"
    /\ UNCHANGED <<raised, resolveVars, call_id, self, disk, jars_closed, suffixes,
                   install_profile, version_meta, lib_i, extracted, returned,
                   meta_file, valid, generic_libraries, process_runs,
                   exit_codes, hook_calls, fetch_error>>

\* Lines 150-151.
RaiseInstallerNotFound ==
    /\ pc = "jar_found"
    /\ install_jar = None
    /\ raised' = Some(ForgeError(INSTALLER_NOT_FOUND, self.forge_version))
    /\ fetch_error' = raised'
    /\ pc' = "raised"
    /\ UNCHANGED <<resolveVars, call_id, self, disk, install_jar, jars_opened,
                   jars_closed, requests, suffixes, jar_i, install_profile, version_meta,
                   lib_i, extracted, returned, meta_file, valid, generic_libraries,
                   process_runs, exit_codes, hook_calls>>

\* Lines 153, 168-173: the archive has no install_profile.json.
RaiseInstallProfileNotFound ==
    /\ pc = "jar_found"
    /\ install_jar # None
    /\ install_jar[1].profile = None
    /\ raised' = Some(ForgeError(INSTALL_PROFILE_NOT_FOUND, self.forge_version))
    /\ fetch_error' = raised'
    /\ jars_closed' = WithExit(jars_closed, TRUE)
    /\ pc' = "raised"
    /\ UNCHANGED <<resolveVars, call_id, self, disk, install_jar, jars_opened, requests,
                   suffixes, jar_i, install_profile, version_meta, lib_i, extracted,
                   returned, meta_file, valid, generic_libraries, process_runs,
                   exit_codes, hook_calls>>

\* install_profile.json is read and the install fields are set at once,
\* before the schema is known.
ReadInstallProfileSettingFields ==
    /\ pc = "jar_found"
    /\ install_jar # None
    /\ install_jar[1].profile # None
    /\ install_profile' = install_jar[1].profile
    /\ self' = [self EXCEPT !.forge_install_data = Some(<<>>),
                            !.forge_install_libraries = Some(<<>>)]
    /\ pc' = IF "json" \in DOMAIN install_jar[1].profile[1] THEN "modern" ELSE "legacy"
    /\ UNCHANGED <<raised, resolveVars, call_id, disk, install_jar, jars_opened,
                   jars_closed, requests, suffixes, jar_i, version_meta, lib_i,
                   extracted, returned, meta_file, valid, generic_libraries,
                   process_runs, exit_codes, hook_calls, fetch_error>>

\* Lines 153, 168-175: install_profile.json is read.
ReadInstallProfile ==
    /\ pc = "jar_found"
    /\ install_jar # None
    /\ install_jar[1].profile # None
    /\ install_profile' = install_jar[1].profile
    /\ pc' = IF "json" \in DOMAIN install_jar[1].profile[1] THEN "modern" ELSE "legacy"
    /\ UNCHANGED <<raised, resolveVars, call_id, self, disk, install_jar, jars_opened,
                   jars_closed, requests, suffixes, jar_i, version_meta, lib_i,
                   extracted, returned, meta_file, valid, generic_libraries, process_runs,
                   exit_codes, hook_calls, fetch_error>>

\* Lines 178-180: the entry named by install_profile["json"] is not in the
\* archive; getinfo raises KeyError.
RaiseVersionJsonMissing ==
    /\ pc = "modern"
    /\ install_jar[1].version_json = None
    /\ raised' = Some(KeyError(install_profile[1].json))
    /\ fetch_error' = raised'
    /\ jars_closed' = WithExit(jars_closed, TRUE)
    /\ pc' = "raised"
    /\ UNCHANGED <<resolveVars, call_id, self, disk, install_jar, jars_opened, requests,
                   suffixes, jar_i, install_profile, version_meta, lib_i, extracted,
                   returned, meta_file, valid, generic_libraries, process_runs,
                   exit_codes, hook_calls>>

\* Lines 178-185.
ReadVersionJson ==
    /\ pc = "modern"
    /\ install_jar[1].version_json # None
    /\ version_meta' = install_jar[1].version_json
    /\ self' = [self EXCEPT
                  !.forge_install_version_libraries = Some(version_meta'[1].libraries),
                  !.forge_install_processors = Some(install_profile[1].processors),
                  !.forge_install_data = Some(<<>>),
                  !.forge_install_libraries = Some(<<>>)]
    /\ lib_i' = 1
    /\ pc' = "libs_loop"
    /\ UNCHANGED <<raised, resolveVars, call_id, disk, install_jar, jars_opened,
                   jars_closed, requests, suffixes, jar_i, install_profile, extracted,
                   returned, meta_file, valid, generic_libraries, process_runs,
                   exit_codes, hook_calls, fetch_error>>

\* DownloadEntry.from_meta(lib_artifact, lib_path)
DownloadEntry(artifact, dst) == [url |-> artifact.url, size |-> artifact.size, dst |-> dst]

\* Line 198: len(lib_artifact["url"])
HasUrl(artifact) == Len(artifact.url) > 0

\* Line 200 taken as always false.
NeedsDownloadNever(files, lib_path, size) == FALSE

\* Line 200: the file is missing, or has not the declared size.
NeedsDownload(files, lib_path, size) ==
    \/ lib_path \notin DOMAIN files
    \/ (size # None /\ files[lib_path] # size[1])

\* The entry of a library in the archive: f"maven/{lib_spec.file_path()}"
MavenEntry(name) == <<"m", "a", "v", "e", "n", "/">> \o name

\* Lines 189-204: one turn of the loop over install_profile["libraries"].
InstallLibrary ==
    /\ pc = "libs_loop"
    /\ lib_i \in 1..Len(install_profile[1].libraries)
    /\ LET install_lib == install_profile[1].libraries[lib_i]
           lib_name == install_lib.name
           lib_artifact == install_lib.downloads.artifact
           lib_path == LibPath(lib_name)
           libs == (lib_name :> lib_path) @@ self.forge_install_libraries[1]
       IN IF HasUrl(lib_artifact)
          THEN /\ self' = [self EXCEPT
                             !.forge_install_libraries = Some(libs),
                             !.dl = IF NeedsDownload(disk, lib_path, lib_artifact.size)
                                    THEN Append(@, DownloadEntry(lib_artifact, lib_path))
                                    ELSE @]
               /\ lib_i' = lib_i + 1
               /\ UNCHANGED <<pc, raised, fetch_error, disk, extracted, jars_closed>>
          ELSE /\ self' = [self EXCEPT !.forge_install_libraries = Some(libs)]
               /\ IF lib_name \in install_jar[1].maven
                  THEN /\ disk' = (lib_path :> EntrySize(MavenEntry(lib_name))) @@ disk
                       /\ extracted' = Append(extracted,
                             [entry |-> MavenEntry(lib_name), dst |-> lib_path])
                       /\ lib_i' = lib_i + 1
                       /\ UNCHANGED <<pc, raised, fetch_error, jars_closed>>
                  ELSE /\ raised' = Some(KeyError(MavenEntry(lib_name)))
                       /\ fetch_error' = raised'
                       /\ jars_closed' = WithExit(jars_closed, TRUE)
                       /\ pc' = "raised"
                       /\ UNCHANGED <<disk, extracted, lib_i>>
    /\ UNCHANGED <<resolveVars, call_id, install_jar, jars_opened, requests, suffixes,
                   jar_i, install_profile, version_meta, returned, meta_file,
                   valid, generic_libraries, process_runs,
                   exit_codes, hook_calls>>

\* Lines 206-208, 234-235: the data, the id, the return.
ReturnModern ==
    /\ pc = "libs_loop"
    /\ lib_i > Len(install_profile[1].libraries)
    /\ self' = [self EXCEPT !.forge_install_data =
                  Some([k \in DOMAIN install_profile[1].data |->
                           install_profile[1].data[k].client])]
    /\ version_meta' = Some(SetId(version_meta[1], call_id))
    /\ returned' = version_meta'
    /\ jars_closed' = WithExit(jars_closed, FALSE)
    /\ pc' = "fetched"
    /\ UNCHANGED <<raised, resolveVars, call_id, disk, install_jar, jars_opened, requests,
                   suffixes, jar_i, install_profile, lib_i, extracted, meta_file,
                   valid, generic_libraries, process_runs,
                   exit_codes, hook_calls, fetch_error>>

\* Lines 213-215.
RaiseVersionMetaNotFound ==
    /\ pc = "legacy"
    /\ DictGet(install_profile[1], "versionInfo") = None
    /\ raised' = Some(ForgeError(VERSION_META_NOT_FOUND, self.forge_version))
    /\ fetch_error' = raised'
    /\ jars_closed' = WithExit(jars_closed, TRUE)
    /\ pc' = "raised"
    /\ UNCHANGED <<resolveVars, call_id, self, disk, install_jar, jars_opened, requests,
                   suffixes, jar_i, install_profile, version_meta, lib_i, extracted,
                   returned, meta_file, valid, generic_libraries, process_runs,
                   exit_codes, hook_calls>>

\* Lines 219-224: the three old keys are deleted from a library.
StripLegacyKeys(version_lib) ==
    LET l1 == IF "serverreq" \in DOMAIN version_lib
              THEN DictDel(version_lib, "serverreq") ELSE version_lib
        l2 == IF "clientreq" \in DOMAIN l1 THEN DictDel(l1, "clientreq") ELSE l1
    IN IF "checksums" \in DOMAIN l2 THEN DictDel(l2, "checksums") ELSE l2

\* Lines 213-235: the old schema.
ParseLegacy ==
    /\ pc = "legacy"
    /\ DictGet(install_profile[1], "versionInfo") # None
    /\ LET info == install_profile[1].versionInfo
           stripped == [i \in 1..Len(info.libraries) |-> StripLegacyKeys(info.libraries[i])]
           jar_entry_path == install_profile[1].install.filePath
           jar_path == LibPath(install_profile[1].install.path)
       IN IF install_jar[1].forge_jar
          THEN /\ disk' = (jar_path :> EntrySize(jar_entry_path)) @@ disk
               /\ extracted' = Append(extracted, [entry |-> jar_entry_path, dst |-> jar_path])
               /\ version_meta' = Some(SetId([info EXCEPT !.libraries = stripped], call_id))
               /\ returned' = version_meta'
               /\ jars_closed' = WithExit(jars_closed, FALSE)
               /\ pc' = "fetched"
               /\ UNCHANGED <<raised, fetch_error>>
          ELSE /\ version_meta' = Some([info EXCEPT !.libraries = stripped])
               /\ raised' = Some(KeyError(jar_entry_path))
               /\ fetch_error' = raised'
               /\ jars_closed' = WithExit(jars_closed, TRUE)
               /\ pc' = "raised"
               /\ UNCHANGED <<disk, extracted, returned>>
    /\ UNCHANGED <<resolveVars, call_id, self, install_jar, jars_opened, requests,
                   suffixes, jar_i, install_profile, lib_i, meta_file,
                   valid, generic_libraries, process_runs,
                   exit_codes, hook_calls>>

\* The archives the server may answer with when _fetch_version_meta is
\* followed alone: every "libraries" array of the profile, with and without
\* the maven/ entries.
FetchJars ==
    ModernJars(SeqsUpTo(InstallLibs, MaxLibs), {<<VLibRemote, VLibNoUrl>>}, {<<ProcA>>},
               SUBSET LibNames)
    \cup LegacyJars(SeqsUpTo(LegacyLibs, MaxVLibs))

\* _fetch_version_meta is called on a new ForgeVersion.
InitFetch ==
    /\ pc = "fetch"
    /\ version_id = <<>>
    /\ ResolveLocals
    /\ raised = None
    /\ \E fv \in ForgeVersions :
          /\ self = NewSelf(fv, None)
          /\ call_id \in {ForgePrefix \o Dash \o fv, ParentId}
    /\ disk \in Disks
    /\ meta_file = None
    /\ InstallerLocals

NextFetch ==
    \/ FetchVersionMetaSuper
    \/ FetchVersionMetaEnter
    \/ RequestInstallJar(FetchJars)
    \/ RaiseInstallerNotFound
    \/ RaiseInstallProfileNotFound
    \/ ReadInstallProfile
    \/ RaiseVersionJsonMissing
    \/ ReadVersionJson
    \/ InstallLibrary
    \/ ReturnModern
    \/ RaiseVersionMetaNotFound
    \/ ParseLegacy

SpecFetch == InitFetch /\ [][NextFetch]_vars

-----------------------------------------------------------------------------
(* The hooks in the order Version calls them *)

Java == <<"j", "a", "v", "a">>

\* Version._prepare_meta_internal: the metadata file of call_id is read; a
\* document that was read is validated, a missing one is fetched.
PrepareMetaLoad ==
    /\ pc = "prepare_meta"
    /\ \E found \in BOOLEAN :
          /\ (call_id = self.id) => (found <=> meta_file # None)
          /\ pc' = IF found THEN "validate" ELSE "fetch"
    /\ UNCHANGED <<raised, resolveVars, installVars>>

\* Lines 113-115: the version's own document is always valid.
ValidateVersionMeta ==
    /\ pc = "validate"
    /\ call_id = self.id
    /\ valid' = Some(TRUE)
    /\ pc' = "validated"
    /\ UNCHANGED <<raised, resolveVars, call_id, self, disk, install_jar, jars_opened,
                   jars_closed, requests, suffixes, jar_i, install_profile, version_meta,
                   lib_i, extracted, returned, meta_file, generic_libraries, process_runs,
                   exit_codes, hook_calls, fetch_error>>

\* Lines 116-117: another id goes to Version._validate_version_meta.
ValidateVersionMetaSuper ==
    /\ pc = "validate"
    /\ call_id # self.id
    /\ pc' = "super_validate"
    /\ UNCHANGED <<raised, resolveVars, installVars>>

\* Version.prepare_meta: the version's own document, read or fetched, is kept
\* (a fetched one is written to the metadata file) and the parent is next.
OwnMetaReady ==
    /\ pc \in {"validated", "fetched"}
    /\ LET doc == IF pc = "validated" THEN meta_file ELSE returned
       IN /\ self' = [self EXCEPT !.version_meta = doc]
          /\ meta_file' = doc
    /\ call_id' = ParentId
    /\ pc' = "prepare_meta"
    /\ UNCHANGED <<raised, resolveVars, disk, install_jar, jars_opened, jars_closed,
                   requests, suffixes, jar_i, install_profile, version_meta, lib_i,
                   extracted, returned, valid, generic_libraries, process_runs,
                   exit_codes, hook_calls, fetch_error>>

\* Version.prepare_meta: the parent's document is ready.
ParentMetaReady ==
    /\ pc \in {"super_validate", "super_fetch"}
    /\ pc' = "prepare_libraries"
    /\ UNCHANGED <<raised, resolveVars, installVars>>

\* Line 244: lib.get("downloads") is a non-empty value.
HasDownloads(lib) == "downloads" \in DOMAIN lib /\ lib.downloads # <<>>

\* prepare_libraries keeping the filtered list in the install field too.
PrepareLibrariesStoringFilter ==
    /\ pc = "prepare_libraries"
    /\ hook_calls' = Append(hook_calls, "prepare_libraries")
    /\ self.version_meta # None
    /\ LET libraries == IF self.forge_install_libraries # None
                        THEN SelectSeq(self.version_meta[1].libraries, HasDownloads)
                        ELSE self.version_meta[1].libraries
       IN /\ self' = [self EXCEPT
                         !.version_meta = Some([@[1] EXCEPT !.libraries = libraries]),
                         !.forge_install_version_libraries =
                             IF @ # None THEN Some(libraries) ELSE @]
          /\ generic_libraries' = Some(libraries)
    /\ pc' = "prepare_post"
    /\ UNCHANGED <<raised, resolveVars, call_id, disk, install_jar, jars_opened,
                   jars_closed, requests, suffixes, jar_i, install_profile, version_meta,
                   lib_i, extracted, returned, meta_file, valid, process_runs,
                   exit_codes, fetch_error>>

\* Lines 237-247: the filter, then Version.prepare_libraries reads the list.
\* Without a document (self.version_meta is None) the filter of line 243
\* subscripts None, and without install fields nothing is filtered.
PrepareLibraries ==
    /\ pc = "prepare_libraries"
    /\ hook_calls' = Append(hook_calls, "prepare_libraries")
    /\ IF self.version_meta = None
       THEN IF self.forge_install_libraries # None
            THEN /\ raised' = Some(TypeError)
                 /\ pc' = "libraries_raised"
                 /\ UNCHANGED <<self, generic_libraries>>
            ELSE /\ generic_libraries' = None
                 /\ pc' = "prepare_post"
                 /\ UNCHANGED <<self, raised>>
       ELSE LET libraries == IF self.forge_install_libraries # None
                             THEN SelectSeq(self.version_meta[1].libraries, HasDownloads)
                             ELSE self.version_meta[1].libraries
            IN /\ self' = [self EXCEPT
                              !.version_meta = Some([@[1] EXCEPT !.libraries = libraries])]
               /\ generic_libraries' = Some(libraries)
               /\ pc' = "prepare_post"
               /\ UNCHANGED raised
    /\ UNCHANGED <<resolveVars, call_id, disk, install_jar, jars_opened,
                   jars_closed, requests, suffixes, jar_i, install_profile, version_meta,
                   lib_i, extracted, returned, meta_file, valid, process_runs,
                   exit_codes, fetch_error>>

\* replace_vars(txt, data): "{key}" becomes data[key].
ReplaceVars(txt, data) ==
    IF Len(txt) >= 2 /\ txt[1] = "{" /\ txt[Len(txt)] = "}"
       /\ SubSeq(txt, 2, Len(txt) - 1) \in DOMAIN data
    THEN data[SubSeq(txt, 2, Len(txt) - 1)]
    ELSE txt

\* Lines 259-264.
ReplaceInstallVars(txt, lib_paths, data) ==
    IF txt[1] = "[" /\ txt[Len(txt)] = "]"
    THEN lib_paths[SubSeq(txt, 2, Len(txt) - 1)]
    ELSE ReplaceVars(txt, data)

\* path.pathsep.join(classpath)
RECURSIVE PathJoin(_)
PathJoin(paths) ==
    IF paths = <<>> THEN <<>>
    ELSE IF Len(paths) = 1 THEN paths[1]
    ELSE paths[1] \o <<":">> \o PathJoin(Tail(paths))

\* The library names a processor looks up (lines 269-271).
ProcessorNames(processor) ==
    {processor.jar}
    \cup {processor.classpath[i] : i \in 1..Len(processor.classpath)}
    \cup {SubSeq(processor.args[i], 2, Len(processor.args[i]) - 1) :
            i \in {j \in 1..Len(processor.args) :
                     /\ processor.args[j][1] = "["
                     /\ processor.args[j][Len(processor.args[j])] = "]"}}

\* Lines 268-273: all_args of one processor.
AllArgs(processor, jvm_exec, lib_paths, data) ==
    <<jvm_exec, <<"-", "c", "p">>,
      PathJoin([i \in 1..Len(processor.classpath) |-> lib_paths[processor.classpath[i]]]),
      <<"-", "j", "a", "r">>, lib_paths[processor.jar]>>
    \o [i \in 1..Len(processor.args) |->
          ReplaceInstallVars(processor.args[i], lib_paths, data)]

\* Lines 266-276: the processors that run, in order, up to the first one that
\* names an unknown library.
RunnableProcessors(processors, lib_paths) ==
    LET bad == {i \in 1..Len(processors) :
                  ~(ProcessorNames(processors[i]) \subseteq DOMAIN lib_paths)}
        n == IF bad = {} THEN Len(processors)
             ELSE (CHOOSE i \in bad : \A j \in bad : i <= j) - 1
    IN SubSeq(processors, 1, n)

\* Line 274: subprocess.run returns the process's returncode, zero or not
\* (check is not set, so a returncode raises nothing).
ExitStatuses == {0, 1}

\* Lines 249-276.  The attributes install_lib_paths, install_processors and
\* install_data are read; __init__ sets forge_install_libraries,
\* forge_install_processors and forge_install_data, and nothing in the file
\* sets an attribute of the names that are read.
PreparePost ==
    /\ pc = "prepare_post"
    /\ hook_calls' = Append(hook_calls, "prepare_post")
    /\ IF "install_lib_paths" \notin DOMAIN self
       THEN /\ raised' = Some(AttributeError("install_lib_paths"))
            /\ pc' = "post_raised"
            /\ UNCHANGED <<process_runs, exit_codes>>
       ELSE IF self.install_lib_paths = None
       THEN /\ pc' = "post_done"
            /\ UNCHANGED <<raised, process_runs, exit_codes>>
       ELSE IF Len(self.install_processors[1]) > 0 /\ self.jvm_exec = None
       THEN /\ raised' = Some(ForgeError(REQUIRES_JVM, self.forge_version))
            /\ pc' = "post_raised"
            /\ UNCHANGED <<process_runs, exit_codes>>
       ELSE LET processors == self.install_processors[1]
                run == RunnableProcessors(processors, self.install_lib_paths[1])
            IN /\ process_runs' = process_runs \o
                     [i \in 1..Len(run) |->
                        AllArgs(run[i], self.jvm_exec[1], self.install_lib_paths[1],
                                self.install_data[1])]
               /\ \E codes \in [1..Len(run) -> ExitStatuses] :
                     exit_codes' = exit_codes \o codes
               /\ IF Len(run) < Len(processors)
                  THEN /\ raised' = Some(KeyError(processors[Len(run) + 1].jar))
                       /\ pc' = "post_raised"
                  ELSE /\ pc' = "post_done"
                       /\ UNCHANGED raised
    /\ UNCHANGED <<resolveVars, call_id, self, disk, install_jar, jars_opened,
                   jars_closed, requests, suffixes, jar_i, install_profile, version_meta,
                   lib_i, extracted, returned, meta_file, valid, generic_libraries,
                   fetch_error>>

\* The most calls of prepare_libraries and prepare_post on one ForgeVersion.
MaxCalls == 4

\* The caller of the hooks: once the metadata step has ended, by a document
\* or by an error it caught, prepare_libraries and prepare_post are called
\* any number of times, in any order.
CallHook ==
    /\ pc \in {"raised", "prepare_libraries", "prepare_post", "libraries_raised",
               "post_done", "post_raised"}
    /\ Len(hook_calls) < MaxCalls
    /\ \E next \in {"prepare_libraries", "prepare_post"} \ {pc} : pc' = next
    /\ raised' = None
    /\ UNCHANGED <<resolveVars, installVars>>

\* The archives the server may answer with when the whole install is
\* followed: every "libraries" array of the version document and every
\* "processors" array, with three "libraries" arrays of the profile.
InstallJars ==
    ModernJars({<<>>,
                <<[name |-> LibA, downloads |-> [artifact |-> [url |-> Url, size |-> None]]]>>,
                <<[name |-> LibA, downloads |-> [artifact |-> [url |-> Url, size |-> None]]],
                  [name |-> LibB, downloads |-> [artifact |-> [url |-> <<>>, size |-> None]]]>>},
               SeqsUpTo(VLibs, MaxVLibs), SeqsUpTo(Procs, MaxProcs), {LibNames})
    \cup LegacyJars({<<>>})

\* A new ForgeVersion is installed: with or without a runtime, with or
\* without a metadata file left by an earlier install.
InitInstall ==
    /\ pc = "prepare_meta"
    /\ version_id = <<>>
    /\ ResolveLocals
    /\ raised = None
    /\ \E fv \in ForgeVersions, jvm \in {None, Some(Java)} :
          /\ self = NewSelf(fv, jvm)
          /\ call_id = ForgePrefix \o Dash \o fv
          /\ meta_file \in {None} \cup
                {Some([id |-> ForgePrefix \o Dash \o fv, libraries |-> vl]) :
                    vl \in SeqsUpTo(VLibs, MaxVLibs)}
    /\ disk = <<>>
    /\ InstallerLocals

NextInstall ==
    \/ PrepareMetaLoad
    \/ ValidateVersionMeta
    \/ ValidateVersionMetaSuper
    \/ FetchVersionMetaSuper
    \/ FetchVersionMetaEnter
    \/ RequestInstallJar(InstallJars)
    \/ RaiseInstallerNotFound
    \/ RaiseInstallProfileNotFound
    \/ ReadInstallProfile
    \/ RaiseVersionJsonMissing
    \/ ReadVersionJson
    \/ InstallLibrary
    \/ ReturnModern
    \/ RaiseVersionMetaNotFound
    \/ ParseLegacy
    \/ OwnMetaReady
    \/ ParentMetaReady
    \/ PrepareLibraries
    \/ PreparePost

SpecInstall == InitInstall /\ [][NextInstall]_vars

\* The install, with the hooks called again and out of order.
NextHooks ==
    \/ PrepareMetaLoad
    \/ ValidateVersionMeta
    \/ ValidateVersionMetaSuper
    \/ FetchVersionMetaSuper
    \/ FetchVersionMetaEnter
    \/ RequestInstallJar(InstallJars)
    \/ RaiseInstallerNotFound
    \/ RaiseInstallProfileNotFound
    \/ ReadInstallProfile
    \/ RaiseVersionJsonMissing
    \/ ReadVersionJson
    \/ InstallLibrary
    \/ ReturnModern
    \/ RaiseVersionMetaNotFound
    \/ ParseLegacy
    \/ OwnMetaReady
    \/ ParentMetaReady
    \/ PrepareLibraries
    \/ PreparePost
    \/ CallHook

SpecHooks == InitInstall /\ [][NextHooks]_vars


-----------------------------------------------------------------------------
(* Claims about _fetch_version_meta *)

FetchEnded == pc \in {"fetched", "raised"}

\* The installer candidates of the three forge versions, written out.
ExpectedCandidates ==
    IF self.forge_version = FvLegacy
    THEN << <<"1", ".", "9", "-", "1", "2">>,
            <<"1", ".", "9", "-", "1", "2", "-", "1", ".", "9", ".", "0">>,
            <<"1", ".", "9", "-", "1", "2", "-", "1", ".", "9">> >>
    ELSE IF self.forge_version = FvBare
    THEN << <<"1", ".", "7", ".", "2">>,
            <<"1", ".", "7", ".", "2", "-", "m", "c", "1", "7", "2">> >>
    ELSE << <<"1", ".", "2", "0", "-", "1", "2">> >>

AllCandidatesFailed ==
    /\ Len(requests) = Len(ExpectedCandidates)
    /\ \A i \in 1..Len(requests) : ~requests[i].ok

\* C4: the installer is requested for the unsuffixed build id first, then for
\* the suffixes of the game version's table entry in table order, each at most
\* once; nothing is requested after the first success, whose archive is the
\* one used; InstallerNotFound is raised exactly when every candidate failed.
C4_InstallerCandidates ==
    /\ Len(requests) <= Len(ExpectedCandidates)
    /\ \A i \in 1..Len(requests) : requests[i].version = ExpectedCandidates[i]
    /\ \A i \in 1..Len(requests) : requests[i].ok => i = Len(requests)
    /\ (install_jar # None) <=> (requests # <<>> /\ requests[Len(requests)].ok)
    /\ FetchEnded =>
          ((raised = Some([type |-> "ForgeError", code |-> "installer_not_found",
                           version |-> self.forge_version]))
             <=> AllCandidatesFailed)
    /\ (pc \in {"modern", "legacy", "libs_loop", "fetched"}) => install_jar # None

\* The third candidate answered after two failures, and its archive was parsed.
C4_Witness ==
    /\ pc = "fetched"
    /\ Len(requests) = 3
    /\ ~requests[1].ok /\ ~requests[2].ok /\ requests[3].ok
    /\ requests[3].version = FvLegacy \o <<"-", "1", ".", "9">>
C4_WitnessNotFound ==
    /\ pc = "raised" /\ Len(requests) = 3 /\ AllCandidatesFailed
C4_WitnessBare ==
    /\ pc = "fetched" /\ self.forge_version = FvBare
    /\ Len(requests) = 2 /\ ~requests[1].ok /\ requests[2].ok

\* C9: at most one archive is open at any time, and none is open once
\* _fetch_version_meta has returned or raised.
C9_ArchiveClosed ==
    /\ jars_closed <= jars_opened
    /\ jars_opened <= jars_closed + 1
    /\ FetchEnded => jars_closed = jars_opened

\* An archive was opened and the call ended: by a KeyError of a missing
\* entry, by a typed error, by a return.
C9_Witness ==
    /\ pc = "raised" /\ raised[1].type = "KeyError" /\ jars_opened = 1 /\ jars_closed = 1
C9_WitnessTyped ==
    /\ pc = "raised" /\ raised[1].type = "ForgeError" /\ jars_opened = 1 /\ jars_closed = 1
C9_WitnessReturn ==
    /\ pc = "fetched" /\ jars_opened = 1 /\ jars_closed = 1

ModernParsed ==
    /\ pc = "fetched"
    /\ install_profile # None
    /\ "json" \in DOMAIN install_profile[1]
ProfileLibs == install_profile[1].libraries
Registered(lib) ==
    \E k \in 1..Len(self.dl) :
        /\ self.dl[k].dst = LibPath(lib.name)
        /\ self.dl[k].url = lib.downloads.artifact.url
Extracted(lib) ==
    /\ \E k \in 1..Len(extracted) :
          extracted[k] = [entry |-> <<"m", "a", "v", "e", "n", "/">> \o lib.name,
                          dst |-> LibPath(lib.name)]
    /\ LibPath(lib.name) \in DOMAIN disk
ManifestIsProfileLibs ==
    /\ self.forge_install_libraries # None
    /\ DOMAIN self.forge_install_libraries[1] =
          {ProfileLibs[i].name : i \in 1..Len(ProfileLibs)}
    /\ \A n \in DOMAIN self.forge_install_libraries[1] :
          self.forge_install_libraries[1][n] = LibPath(n)

\* C10 as claimed: after a modern parse the manifest has the names of the
\* profile's libraries and each library either has a url and is registered
\* for download, or has none and was extracted from maven/.
C10_Original ==
    ModernParsed =>
        /\ ManifestIsProfileLibs
        /\ \A i \in 1..Len(ProfileLibs) :
              IF Len(ProfileLibs[i].downloads.artifact.url) > 0
              THEN Registered(ProfileLibs[i])
              ELSE Extracted(ProfileLibs[i])

\* C10, amended: after a modern parse the manifest has exactly the names of
\* the profile's libraries, each with its destination path; a library with a
\* url is registered for download or its file is already at its destination
\* path; a library without a url was extracted from maven/ to its destination.
C10_ManifestStates ==
    ModernParsed =>
        /\ ManifestIsProfileLibs
        /\ \A i \in 1..Len(ProfileLibs) :
              IF Len(ProfileLibs[i].downloads.artifact.url) > 0
              THEN \/ Registered(ProfileLibs[i])
                   \/ LibPath(ProfileLibs[i].name) \in DOMAIN disk
              ELSE Extracted(ProfileLibs[i])

\* Two libraries, one registered for download and one extracted.
C10_Witness ==
    /\ ModernParsed
    /\ Len(ProfileLibs) = 2
    /\ ProfileLibs[1].name = LibA /\ ProfileLibs[1].downloads.artifact.url = Url
    /\ ProfileLibs[2].name = LibB /\ ProfileLibs[2].downloads.artifact.url = <<>>
    /\ Registered(ProfileLibs[1])
    /\ Extracted(ProfileLibs[2])
    /\ Len(self.dl) = 1

ProfileMissing == install_jar # None /\ install_jar[1].profile = None
MetaMissing ==
    /\ install_jar # None
    /\ install_jar[1].profile # None
    /\ "json" \notin DOMAIN install_jar[1].profile[1]
    /\ "versionInfo" \notin DOMAIN install_jar[1].profile[1]
NoLocalRecovery ==
    /\ pc = "raised"
    /\ returned = None
    /\ requests[Len(requests)].ok
    /\ jars_opened = 1

\* C11: a fetch of the version's own id that got an archive without
\* install_profile.json ends with InstallProfileNotFound, and one that got a
\* profile with neither "json" nor "versionInfo" ends with VersionMetaNotFound;
\* each error carries the forge version, nothing was extracted to the
\* libraries directory, no other archive was requested and nothing is returned.
C11_ProfileErrors ==
    FetchEnded =>
        /\ ProfileMissing =>
              /\ raised = Some([type |-> "ForgeError", code |-> "install_profile_not_found",
                                version |-> self.forge_version])
              /\ extracted = <<>>
              /\ NoLocalRecovery
        /\ MetaMissing =>
              /\ raised = Some([type |-> "ForgeError", code |-> "version_meta_not_found",
                                version |-> self.forge_version])
              /\ extracted = <<>>
              /\ NoLocalRecovery

\* An archive without a profile ended the call, after a first failed request;
\* a profile without a document ended the call.
C11_Witness ==
    /\ FetchEnded /\ ProfileMissing /\ Len(requests) = 2 /\ call_id = self.id
C11_WitnessMeta ==
    /\ FetchEnded /\ MetaMissing /\ call_id = self.id

\* C12: the document a fetch of the version's own id returns, in either
\* schema, has the id the caller gave, not the id written in the archive.
C12_ReturnedIdIsCallerId ==
    (pc = "fetched") =>
        /\ returned # None
        /\ call_id = self.id
        /\ returned[1].id = call_id
        /\ returned[1].id # EmbeddedId

\* A modern and an old archive, each declaring another id, were parsed.
C12_Witness ==
    /\ ModernParsed /\ install_jar[1].version_json[1].id = EmbeddedId /\ returned # None
C12_WitnessLegacy ==
    /\ pc = "fetched" /\ ~ModernParsed
    /\ install_profile[1].versionInfo.id = EmbeddedId /\ returned # None

LegacyParsed == pc = "fetched" /\ ~ModernParsed
ArchiveLibs == install_profile[1].versionInfo.libraries

\* C14: after a parse of the old schema the returned document has as many
\* library entries as the archive's, in the same order; each has none of
\* serverreq, clientreq, checksums and every other field as it was.
C14_LegacyKeysStripped ==
    LegacyParsed =>
        /\ Len(returned[1].libraries) = Len(ArchiveLibs)
        /\ \A i \in 1..Len(ArchiveLibs) :
              /\ DOMAIN returned[1].libraries[i] =
                    DOMAIN ArchiveLibs[i] \ {"serverreq", "clientreq", "checksums"}
              /\ \A k \in DOMAIN returned[1].libraries[i] :
                    returned[1].libraries[i][k] = ArchiveLibs[i][k]

\* Two libraries of different names, one with the three old keys and one
\* with checksums only, were parsed.
C14_Witness ==
    /\ LegacyParsed
    /\ Len(ArchiveLibs) = 2
    /\ ArchiveLibs[1].name = LibB /\ ArchiveLibs[2].name = LibA
    /\ DOMAIN ArchiveLibs[1] = {"name", "serverreq", "clientreq", "checksums"}
    /\ DOMAIN ArchiveLibs[2] = {"name", "checksums"}

-----------------------------------------------------------------------------
(* Claims about prepare_libraries and prepare_post *)

ModernInstall == self.forge_install_libraries # None
PostEnded == pc \in {"post_done", "post_raised"}
DeclaresDownloads(lib) == "downloads" \in DOMAIN lib
HasRemoteUrl(lib) ==
    /\ "downloads" \in DOMAIN lib
    /\ Len(lib.downloads.artifact.url) > 0

\* C5: in a modern install the generic library step gets the entries of the
\* version document that declare a download descriptor, in their order, and
\* none of them is an entry without a remote url.
C5_OnlyDownloadable ==
    (ModernInstall /\ generic_libraries # None) =>
        /\ generic_libraries[1] =
              SelectSeq(self.forge_install_version_libraries[1], DeclaresDownloads)
        /\ \A i \in 1..Len(generic_libraries[1]) : HasRemoteUrl(generic_libraries[1][i])

\* The part of C5 that the filter of line 244 does give.
C5_DeclaredInOrder ==
    (ModernInstall /\ generic_libraries # None) =>
        generic_libraries[1] =
            SelectSeq(self.forge_install_version_libraries[1], DeclaresDownloads)

\* The invocations the install profile declares, for the fields __init__ names.
DeclaredRuns ==
    [i \in 1..Len(self.forge_install_processors[1]) |->
        AllArgs(self.forge_install_processors[1][i], self.jvm_exec[1],
                self.forge_install_libraries[1], self.forge_install_data[1])]
NamesResolve ==
    \A i \in 1..Len(self.forge_install_processors[1]) :
        ProcessorNames(self.forge_install_processors[1][i])
            \subseteq DOMAIN self.forge_install_libraries[1]

\* C6: prepare_post of a modern install with a runtime ends after one
\* invocation per declared processor, in the declared order, each with its
\* arguments in the declared order.
C6_ProcessorsInOrder ==
    (PostEnded /\ ModernInstall /\ self.jvm_exec # None /\ NamesResolve) =>
        /\ pc = "post_done"
        /\ process_runs = DeclaredRuns

\* C7: prepare_post of a modern install without a runtime raises RequiresJvm
\* with the forge version, before any invocation, when a processor is
\* declared, and raises nothing when none is.
C7_RequiresJvm ==
    (PostEnded /\ ModernInstall /\ self.jvm_exec = None) =>
        IF Len(self.forge_install_processors[1]) > 0
        THEN /\ raised = Some([type |-> "ForgeError", code |-> "requires_jvm",
                               version |-> self.forge_version])
             /\ process_runs = <<>>
        ELSE pc = "post_done" /\ raised = None

\* C8: when the version's own document was read and validated, no installer
\* is requested, no processor is invoked, and prepare_post completes.
C8_ValidatedInstallCompletes ==
    (valid = Some(TRUE)) =>
        /\ requests = <<>>
        /\ jars_opened = 0
        /\ process_runs = <<>>
        /\ PostEnded => (pc = "post_done" /\ raised = None)

\* The part of C8 that holds: nothing is requested and nothing is run.
C8_NoFetchNoRun ==
    (valid = Some(TRUE)) =>
        /\ requests = <<>>
        /\ jars_opened = 0
        /\ process_runs = <<>>

\* The argument a template stands for, for the fields __init__ names: the
\* manifest path of <name> for "[<name>]", the generic substitution with the
\* install data for any other template.
ExpectedArg(template) ==
    IF template[1] = "[" /\ template[Len(template)] = "]"
    THEN self.forge_install_libraries[1][SubSeq(template, 2, Len(template) - 1)]
    ELSE ReplaceVars(template, self.forge_install_data[1])

\* C13: in the invocation of every declared processor, each argument after
\* the five fixed ones is its template substituted: "[<name>]" by the
\* manifest path of <name>, any other template by the generic substitution
\* with the install data.
C13_ArgsSubstituted ==
    (PostEnded /\ ModernInstall /\ self.jvm_exec # None /\ NamesResolve) =>
        \A i \in 1..Len(self.forge_install_processors[1]) :
            /\ i <= Len(process_runs)
            /\ \A j \in 1..Len(self.forge_install_processors[1][i].args) :
                  process_runs[i][5 + j] =
                      ExpectedArg(self.forge_install_processors[1][i].args[j])

\* C15: prepare_post of a modern install with a runtime raises nothing
\* whatever the exit statuses are, and every declared processor was invoked
\* and left an exit status.
C15_NonZeroExitIgnored ==
    (PostEnded /\ ModernInstall /\ self.jvm_exec # None /\ NamesResolve) =>
        /\ raised = None
        /\ Len(exit_codes) = Len(self.forge_install_processors[1])
        /\ Len(process_runs) = Len(exit_codes)

\* What does hold: no processor is ever invoked, so none exits.
C15_NoExitObserved == exit_codes = <<>> /\ process_runs = <<>>

-----------------------------------------------------------------------------
(* Claims about the install fields *)

InstallFields ==
    <<self.forge_install_libraries, self.forge_install_processors,
      self.forge_install_data, self.forge_install_version_libraries>>
FieldsUnset == InstallFields = <<None, None, None, None>>
InOwnFetch == pc \in {"modern", "libs_loop"} /\ call_id = self.id

\* A dict that was assigned keeps its keys and their values.
Kept(before, after) ==
    before # None =>
        /\ after # None
        /\ \A k \in DOMAIN before[1] : k \in DOMAIN after[1] /\ after[1][k] = before[1][k]

\* C16: the four install fields change only in a step of _fetch_version_meta
\* for the version's own id; once assigned, the processor list and the
\* version-metadata libraries never change and the manifest and the data are
\* never assigned again (they keep what they hold); prepare_libraries and
\* prepare_post, called any number of times in any order, change none.
C16_FieldsWrittenByFetchOnce ==
    [][/\ (InstallFields' # InstallFields) => InOwnFetch
       /\ (self.forge_install_processors # None) =>
             /\ self'.forge_install_processors = self.forge_install_processors
             /\ self'.forge_install_version_libraries = self.forge_install_version_libraries
       /\ Kept(self.forge_install_libraries, self'.forge_install_libraries)
       /\ Kept(self.forge_install_data, self'.forge_install_data)
       /\ (pc \in {"prepare_libraries", "prepare_post"}) => InstallFields' = InstallFields
      ]_vars

\* After a modern parse that filled the four fields, prepare_post was called
\* before prepare_libraries and each was called twice.
C16_Witness ==
    /\ hook_calls = <<"prepare_post", "prepare_libraries", "prepare_libraries", "prepare_post">>
    /\ ModernInstall
    /\ DOMAIN self.forge_install_libraries[1] = {LibA, LibB}
    /\ self.forge_install_processors = Some(<<ProcA, ProcB>>)
    /\ self.forge_install_version_libraries = Some(<<VLibPlain, VLibRemote>>)
    /\ self.forge_install_data # Some(<<>>)

TypedFetchFailure ==
    /\ fetch_error # None
    /\ fetch_error[1].type = "ForgeError"
    /\ fetch_error[1].code \in
          {"installer_not_found", "install_profile_not_found", "version_meta_not_found"}

\* C17: once _fetch_version_meta has failed with InstallerNotFound,
\* InstallProfileNotFound or VersionMetaNotFound, the four install fields are
\* unset as __init__ left them, and they stay so through later calls of
\* prepare_libraries, which filters nothing (the document is as it was and
\* line 243 is not run), and of prepare_post, which runs no processor.
C17_TypedFailureLeavesFieldsUnset ==
    TypedFetchFailure =>
        /\ FieldsUnset
        /\ self.version_meta = None
        /\ self.dl = <<>>
        /\ raised # Some(TypeError)
        /\ generic_libraries = None
        /\ process_runs = <<>>

\* Each typed failure, followed by a prepare_libraries and a prepare_post.
C17_Witness ==
    /\ TypedFetchFailure /\ fetch_error[1].code = "version_meta_not_found"
    /\ hook_calls = <<"prepare_libraries", "prepare_post">>
C17_WitnessProfile ==
    /\ TypedFetchFailure /\ fetch_error[1].code = "install_profile_not_found"
    /\ hook_calls = <<"prepare_libraries", "prepare_post">>
C17_WitnessInstaller ==
    /\ TypedFetchFailure /\ fetch_error[1].code = "installer_not_found"
    /\ hook_calls = <<"prepare_post", "prepare_libraries">>

\* C18: a _validate_version_meta or _fetch_version_meta for an id other than
\* the version's own goes to the method of Version and does nothing else: no
\* installer is requested, no archive is opened, no file is extracted, and
\* nothing of the ForgeVersion changes.
C18_OtherIdDelegates ==
    [][(pc \in {"validate", "fetch"} /\ call_id # self.id) =>
          /\ pc' = IF pc = "validate" THEN "super_validate" ELSE "super_fetch"
          /\ UNCHANGED <<self, requests, jars_opened, extracted, disk, valid,
                         returned, raised, meta_file>>
      ]_vars

\* The parent's document was fetched, or validated, by Version after the
\* version's own modern install had filled the fields.
C18_Witness ==
    /\ pc = "super_fetch" /\ call_id = ParentId /\ call_id # self.id
    /\ ModernInstall /\ Len(requests) = 1
C18_WitnessValidate ==
    /\ pc = "super_validate" /\ call_id = ParentId /\ call_id # self.id
    /\ ModernInstall

====
